---------------------------- MODULE Spec2Model ----------------------------
(***************************************************************************)
(* A model of ProjectTwoDashboard_FIXED_v3.py: the constructor probing     *)
(* (try_construct), the read-method discovery (resolve_reader), the query  *)
(* builder (build_query), the normalisation of the reader's result         *)
(* (to_dataframe and the EXPECTED_COLS fill), the initial fetch and the    *)
(* two callbacks update_table and update_chart.                            *)
(*                                                                         *)
(* Python values are tagged records: None, str (a sequence of one-letter   *)
(* strings), list, dict, ObjectId and the float NaN.  A dict is a function *)
(* from its keys to its values; the insertion order of a dict and the      *)
(* order of a DataFrame's columns are not modelled (columns are a set).    *)
(* An exception is the value Raised; a handler that lets one escape sets   *)
(* the variable that records it.                                           *)
(***************************************************************************)
EXTENDS Integers, Sequences, FiniteSets, TLC

VARIABLES
    \* ---- build_query applied to one combination of control values
    q_phase,        \* "input" | "built"
    animal_in,      \* the f-animal value
    outcome_in,     \* the f-outcome value
    breed_in,       \* the f-breed value
    sex_in,         \* the f-sex value
    q_out,          \* the dict build_query returned
    \* ---- the dashboard: the backing store, the table and the chart
    phase,          \* "startup" | "serving"
    store,          \* the documents of the backing collection
    animal_types,   \* options of the f-animal dropdown
    outcome_types,  \* options of the f-outcome dropdown
    sex_options,    \* options of the f-sex dropdown
    last_query,     \* the filter handed to reader by the last fetch
    last_result,    \* what reader did on it: Raised or Returned(kind, recs)
    reader_calls,   \* reader calls made by the last fetch
    fetch_logged,   \* the last fetch printed an error line
    escaped,        \* an exception left the last handler
    df_columns,     \* columns of the DataFrame the last fetch ended with
    tbl_data,       \* the "data" property of the table: a list of row dicts
    chart_stale,    \* tbl.data changed and update_chart has not run on it yet
    chart,          \* the "figure" property of the graph
    \* ---- resolve_reader applied to one data-access object
    r_phase,        \* "input" | "resolved" | "called"
    obj,            \* the object: its attributes among the candidate names,
                    \* its collection and its database
    resolved,       \* what resolve_reader gave: a reader or the RuntimeError
    invoked,        \* the call the reader made on the object when called
    \* ---- try_construct applied to one constructor
    c_phase,        \* "input" | "done"
    ctor,           \* what the k-th call of ShelterClass does
    n_params,       \* parameters of ShelterClass.__init__ besides self
    attempts,       \* the argument tuples ShelterClass was called with, in order
    constructed     \* what try_construct did: an instance or a raise

q_vars == <<q_phase, animal_in, outcome_in, breed_in, sex_in, q_out>>

dash_vars == <<phase, store, animal_types, outcome_types, sex_options,
               last_query, last_result, reader_calls, fetch_logged, escaped,
               df_columns, tbl_data, chart_stale, chart>>

r_vars == <<r_phase, obj, resolved, invoked>>

c_vars == <<c_phase, ctor, n_params, attempts, constructed>>

vars == <<q_vars, dash_vars, r_vars, c_vars>>

-----------------------------------------------------------------------------
\* Python values

PyNone == [py |-> "None"]
PyStr(s) == [py |-> "str", val |-> s]
PyList(l) == [py |-> "list", val |-> l]
PyDict(d) == [py |-> "dict", val |-> d]
PyObjectId(h) == [py |-> "ObjectId", val |-> h]
NaN == [py |-> "float", val |-> "nan"]

\* bool(x) for the values the filter controls deliver: None, "" and [] are falsy
Truthy(x) == x.py # "None" /\ x.val # <<>>

Range(s) == {s[i] : i \in DOMAIN s}

EmptyDict == <<>>

\* d[k] = v on a dict
Put(d, k, v) == [x \in (DOMAIN d) \cup {k} |-> IF x = k THEN v ELSE d[x]]

\* string literals of the program and of the data, as sequences of letters
All == <<"A", "l", "l">>
Unknown == <<"U", "n", "k", "n", "o", "w", "n">>
Dog == <<"D", "o", "g">>
Cat == <<"C", "a", "t">>
Adoption == <<"A", "d", "o", "p", "t", "i", "o", "n">>
Transfer == <<"T", "r", "a", "n", "s", "f", "e", "r">>
Male == <<"M", "a", "l", "e">>
Female == <<"F", "e", "m", "a", "l", "e">>
Shepherd == <<"S", "h", "e", "p", "h", "e", "r", "d">>
shepherd == <<"s", "h", "e", "p", "h", "e", "r", "d">>
SHEP == <<"S", "H", "E", "P">>
Lab == <<"L", "a", "b">>

UpperLetters == <<"A", "B", "C", "D", "E", "F", "G", "H", "I", "J", "K", "L", "M",
                  "N", "O", "P", "Q", "R", "S", "T", "U", "V", "W", "X", "Y", "Z">>
LowerLetters == <<"a", "b", "c", "d", "e", "f", "g", "h", "i", "j", "k", "l", "m",
                  "n", "o", "p", "q", "r", "s", "t", "u", "v", "w", "x", "y", "z">>

\* one letter folded to lower case
LowerChar(c) ==
    IF \E i \in DOMAIN UpperLetters : UpperLetters[i] = c
    THEN LowerLetters[CHOOSE i \in DOMAIN UpperLetters : UpperLetters[i] = c]
    ELSE c

Lower(s) == [i \in DOMAIN s |-> LowerChar(s[i])]

\* pat occurs in text as a contiguous run
Contains(text, pat) ==
    \E k \in 0..(Len(text) - Len(pat)) :
        \A i \in 1..Len(pat) : text[k + i] = pat[i]

-----------------------------------------------------------------------------
\* Query builder

\* the filter of the initial fetch, reader({})
InitialFetchQuery == EmptyDict

build_query_no_sentinel(animal_type, outcome_type, breed_text, sex_list) ==
    LET q0 == EmptyDict
        q1 == IF Truthy(animal_type)
              THEN Put(q0, "animal_type", animal_type) ELSE q0
        q2 == IF Truthy(outcome_type)
              THEN Put(q1, "outcome_type", outcome_type) ELSE q1
        q3 == IF Truthy(breed_text)
              THEN Put(q2, "breed", PyDict(("$regex" :> breed_text)
                                           @@ ("$options" :> PyStr(<<"i">>))))
              ELSE q2
        q4 == IF Truthy(sex_list)
              THEN Put(q3, "sex_upon_outcome", PyDict("$in" :> sex_list)) ELSE q3
    IN  q4

build_query_outcome_as_species(animal_type, outcome_type, breed_text, sex_list) ==
    LET q0 == EmptyDict
        q1 == IF Truthy(animal_type) /\ animal_type # PyStr(All)
              THEN Put(q0, "animal_type", animal_type) ELSE q0
        q2 == IF Truthy(animal_type) /\ animal_type # PyStr(All)
              THEN Put(q1, "outcome_type", outcome_type) ELSE q1
        q3 == IF Truthy(breed_text)
              THEN Put(q2, "breed", PyDict(("$regex" :> breed_text)
                                           @@ ("$options" :> PyStr(<<"i">>))))
              ELSE q2
        q4 == IF Truthy(sex_list)
              THEN Put(q3, "sex_upon_outcome", PyDict("$in" :> sex_list)) ELSE q3
    IN  q4

build_query_case_sensitive(animal_type, outcome_type, breed_text, sex_list) ==
    LET q0 == EmptyDict
        q1 == IF Truthy(animal_type) /\ animal_type # PyStr(All)
              THEN Put(q0, "animal_type", animal_type) ELSE q0
        q2 == IF Truthy(outcome_type) /\ outcome_type # PyStr(All)
              THEN Put(q1, "outcome_type", outcome_type) ELSE q1
        q3 == IF Truthy(breed_text)
              THEN Put(q2, "breed", PyDict(("$regex" :> breed_text)
                                           @@ ("$options" :> PyStr(<<>>))))
              ELSE q2
        q4 == IF Truthy(sex_list)
              THEN Put(q3, "sex_upon_outcome", PyDict("$in" :> sex_list)) ELSE q3
    IN  q4

build_query(animal_type, outcome_type, breed_text, sex_list) ==
    LET q0 == EmptyDict
        q1 == IF Truthy(animal_type) /\ animal_type # PyStr(All)
              THEN Put(q0, "animal_type", animal_type) ELSE q0
        q2 == IF Truthy(outcome_type) /\ outcome_type # PyStr(All)
              THEN Put(q1, "outcome_type", outcome_type) ELSE q1
        q3 == IF Truthy(breed_text)
              THEN Put(q2, "breed", PyDict(("$regex" :> breed_text)
                                           @@ ("$options" :> PyStr(<<"i">>))))
              ELSE q2
        q4 == IF Truthy(sex_list)
              THEN Put(q3, "sex_upon_outcome", PyDict("$in" :> sex_list)) ELSE q3
    IN  q4

-----------------------------------------------------------------------------
\* The backing store's find(filter), as the filters of build_query use it

\* re.search of a literal pattern; option "i" folds case on both sides
RegexSearch(pattern, options, text) ==
    IF "i" \in Range(options)
    THEN Contains(Lower(text), Lower(pattern))
    ELSE Contains(text, pattern)

\* one field constraint of a filter against one document
FieldMatches(doc, k, c) ==
    /\ k \in DOMAIN doc
    /\ IF c.py = "dict"
       THEN /\ ("$regex" \in DOMAIN c.val) =>
                  /\ doc[k].py = "str"
                  /\ RegexSearch(c.val["$regex"].val, c.val["$options"].val,
                                 doc[k].val)
            /\ ("$in" \in DOMAIN c.val) => doc[k] \in Range(c.val["$in"].val)
       ELSE doc[k] = c

Matches(doc, q) == \A k \in DOMAIN q : FieldMatches(doc, k, q[k])

\* the documents of s that satisfy the filter q, in order
RECURSIVE SelectMatching(_, _)
SelectMatching(s, q) ==
    IF s = <<>> THEN <<>>
    ELSE IF Matches(Head(s), q)
         THEN <<Head(s)>> \o SelectMatching(Tail(s), q)
         ELSE SelectMatching(Tail(s), q)

find(collection, q) == SelectMatching(collection, q)

-----------------------------------------------------------------------------
\* Exceptions, the reader's results and DataFrames

Raised == [exc |-> TRUE]

\* what a reader call returned: kind "records" (an iterable of mappings, recs),
\* "none" (the value None) or "scalar" (a value that is neither iterable nor
\* None, such as False or a count)
Returned(kind, recs) == [exc |-> FALSE, kind |-> kind, recs |-> recs]

DataFrame(columns, rows) == [exc |-> FALSE, columns |-> columns, rows |-> rows]

EXPECTED_COLS ==
    <<"_id", "name", "animal_id", "animal_type", "breed", "color",
      "age_upon_outcome", "sex_upon_outcome", "outcome_type", "outcome_subtype",
      "date_of_birth">>

\* pandas' isna on one cell
IsNull(v) == v = PyNone \/ v = NaN

\* str(v), as astype(str) applies it to each cell of a column
Str(v) ==
    CASE v.py = "str" -> v
      [] v.py = "ObjectId" -> PyStr(v.val)
      [] v.py = "None" -> PyStr(<<"N", "o", "n", "e">>)
      [] v.py = "float" -> PyStr(<<"n", "a", "n">>)

\* pd.DataFrame(list of dicts): the columns are the union of the keys, a key
\* a dict lacks is NaN in its row
FromRecords(recs) ==
    LET cols == UNION {DOMAIN recs[i] : i \in DOMAIN recs}
    IN  DataFrame(cols,
            [i \in DOMAIN recs |->
                [c \in cols |-> IF c \in DOMAIN recs[i] THEN recs[i][c] ELSE NaN]])

\* df[c] = df[c].astype(str)
AsTypeStr(df, c) ==
    DataFrame(df.columns,
        [i \in DOMAIN df.rows |->
            [k \in df.columns |-> IF k = c THEN Str(df.rows[i][k]) ELSE df.rows[i][k]]])

\* df[c] = None: a new column, None in every row
AddNoneColumn(df, c) ==
    DataFrame(df.columns \cup {c},
        [i \in DOMAIN df.rows |->
            [k \in df.columns \cup {c} |-> IF k = c THEN PyNone ELSE df.rows[i][k]]])

to_dataframe(result) ==
    LET df == CASE result.kind = "records" -> FromRecords(result.recs)
                \* list(None) raises, pd.DataFrame(None) is the empty frame
                [] result.kind = "none" -> DataFrame({}, <<>>)
                \* list(x) raises and so does pd.DataFrame(x)
                [] result.kind = "scalar" -> Raised
    IN  IF df.exc THEN Raised
        ELSE IF "_id" \in df.columns THEN AsTypeStr(df, "_id") ELSE df

\* for c in EXPECTED_COLS: if c not in df.columns: df[c] = None
RECURSIVE FillFrom(_, _)
FillFrom(df, cs) ==
    IF cs = <<>> THEN df
    ELSE FillFrom(IF Head(cs) \in df.columns THEN df
                  ELSE AddNoneColumn(df, Head(cs)),
                  Tail(cs))

FillExpected(df) == FillFrom(df, EXPECTED_COLS)

\* df.to_dict("records")
to_dict_records(df) == df.rows

\* ["All"] + sorted(df[c].dropna().unique()), as a set; without "All" for f-sex
ColumnValues(rows, c) == {rows[i][c] : i \in {j \in DOMAIN rows : ~IsNull(rows[j][c])}}

-----------------------------------------------------------------------------
\* The reader and the fetches

\* reader(q) on the backing collection: it raises, or returns what the store's
\* find gives, or (a read method with another contract) None or a scalar
reader(collection, fault, q) ==
    CASE fault = "raise" -> Raised
      [] fault = "ok" -> Returned("records", find(collection, q))
      [] fault = "none" -> Returned("none", <<>>)
      [] fault = "scalar" -> Returned("scalar", <<>>)

Faults == {"ok", "raise", "none", "scalar"}

\* module level: the initial fetch, the EXPECTED_COLS fill, the dropdown
\* options and the table's first data
initial_fetch(collection, fault) ==
    LET q == InitialFetchQuery
        result == reader(collection, fault, q)
        fetched == IF result.exc THEN Raised ELSE to_dataframe(result)
        base_df == FillExpected(IF fetched.exc THEN DataFrame({}, <<>>) ELSE fetched)
    IN  [query |-> q, result |-> result, calls |-> 1,
         logged |-> fetched.exc, escaped |-> FALSE,
         columns |-> base_df.columns, data |-> to_dict_records(base_df),
         animal_types |-> {PyStr(All)} \cup ColumnValues(base_df.rows, "animal_type"),
         outcome_types |-> {PyStr(All)} \cup ColumnValues(base_df.rows, "outcome_type"),
         sex_options |-> ColumnValues(base_df.rows, "sex_upon_outcome")]

update_table_no_except(animal, outcome, breed, sex, collection, fault) ==
    LET q == build_query(animal, outcome, breed,
                         IF Truthy(sex) THEN sex ELSE PyList(<<>>))
        result == reader(collection, fault, q)
        fetched == IF result.exc THEN Raised ELSE to_dataframe(result)
        df == FillExpected(IF fetched.exc THEN DataFrame({}, <<>>) ELSE fetched)
    IN  [query |-> q, result |-> result, calls |-> 1,
         logged |-> FALSE, escaped |-> fetched.exc,
         columns |-> df.columns, data |-> to_dict_records(df)]

update_table_expected_only(animal, outcome, breed, sex, collection, fault) ==
    LET q == build_query(animal, outcome, breed,
                         IF Truthy(sex) THEN sex ELSE PyList(<<>>))
        result == reader(collection, fault, q)
        fetched == IF result.exc THEN Raised ELSE to_dataframe(result)
        df == FillExpected(IF fetched.exc
                           THEN DataFrame(Range(EXPECTED_COLS), <<>>)
                           ELSE fetched)
    IN  [query |-> q, result |-> result, calls |-> 1,
         logged |-> fetched.exc, escaped |-> FALSE,
         columns |-> Range(EXPECTED_COLS),
         data |-> [i \in DOMAIN df.rows |->
                      [c \in Range(EXPECTED_COLS) |-> df.rows[i][c]]]]

update_table_retry(animal, outcome, breed, sex, collection, fault) ==
    LET q == build_query(animal, outcome, breed,
                         IF Truthy(sex) THEN sex ELSE PyList(<<>>))
        first == reader(collection, fault, q)
        result == IF first.exc THEN reader(collection, "ok", q) ELSE first
        fetched == IF result.exc THEN Raised ELSE to_dataframe(result)
        df == FillExpected(IF fetched.exc
                           THEN DataFrame(Range(EXPECTED_COLS), <<>>)
                           ELSE fetched)
    IN  [query |-> q, result |-> first, calls |-> IF first.exc THEN 2 ELSE 1,
         logged |-> fetched.exc, escaped |-> FALSE,
         columns |-> df.columns, data |-> to_dict_records(df)]

\* the callback on the four filter controls
update_table(animal, outcome, breed, sex, collection, fault) ==
    LET q == build_query(animal, outcome, breed,
                         IF Truthy(sex) THEN sex ELSE PyList(<<>>))
        result == reader(collection, fault, q)
        \* try: df = to_dataframe(reader(q))
        fetched == IF result.exc THEN Raised ELSE to_dataframe(result)
        \* except Exception: df = pd.DataFrame(columns=EXPECTED_COLS)
        df == FillExpected(IF fetched.exc
                           THEN DataFrame(Range(EXPECTED_COLS), <<>>)
                           ELSE fetched)
    IN  [query |-> q, result |-> result, calls |-> 1,
         logged |-> fetched.exc, escaped |-> FALSE,
         columns |-> df.columns, data |-> to_dict_records(df)]

-----------------------------------------------------------------------------
\* The chart

NoDataTitle == "Outcome Type Distribution (no data)"
ChartTitle == "Outcome Type Distribution"

\* the graph before its callback has run
NoFigure == [title |-> "", buckets |-> EmptyDict, raised |-> FALSE]

\* df[c].fillna("Unknown") on one cell
FillNa(v) == IF IsNull(v) THEN PyStr(Unknown) ELSE v

\* pd.DataFrame(rows).empty: no rows or no columns
FrameEmpty(df) == df.rows = <<>> \/ df.columns = {}

update_chart_drop_null(rows) ==
    LET df == FromRecords(rows)
    IN  IF FrameEmpty(df) \/ "outcome_type" \notin df.columns
        THEN [title |-> NoDataTitle, buckets |-> EmptyDict, raised |-> FALSE]
        ELSE LET labels == {df.rows[i]["outcome_type"] :
                              i \in {j \in DOMAIN df.rows :
                                       ~IsNull(df.rows[j]["outcome_type"])}}
             IN  [title |-> ChartTitle,
                  buckets |-> [l \in labels |->
                      Cardinality({i \in DOMAIN df.rows :
                                     df.rows[i]["outcome_type"] = l})],
                  raised |-> FALSE]

update_chart_no_guard(rows) ==
    LET df == FromRecords(rows)
    IN  IF "outcome_type" \notin df.columns
        THEN [title |-> "", buckets |-> EmptyDict, raised |-> TRUE]
        ELSE LET col == [i \in DOMAIN df.rows |-> FillNa(df.rows[i]["outcome_type"])]
             IN  [title |-> ChartTitle,
                  buckets |-> [l \in Range(col) |->
                                  Cardinality({i \in DOMAIN col : col[i] = l})],
                  raised |-> FALSE]

\* the callback on tbl.data
update_chart(rows) ==
    LET df == FromRecords(rows)
    IN  IF FrameEmpty(df) \/ "outcome_type" \notin df.columns
        THEN [title |-> NoDataTitle, buckets |-> EmptyDict, raised |-> FALSE]
        ELSE \* value_counts of the column after fillna("Unknown")
             LET col == [i \in DOMAIN df.rows |-> FillNa(df.rows[i]["outcome_type"])]
             IN  [title |-> ChartTitle,
                  buckets |-> [l \in Range(col) |->
                                  Cardinality({i \in DOMAIN col : col[i] = l})],
                  raised |-> FALSE]

-----------------------------------------------------------------------------
\* Constructor probing

USERNAME == "USERNAME"
PASSWORD == "PASSWORD"

\* what try_construct ends with
Instance(args) == [raised |-> FALSE, args |-> args]
Propagated == [raised |-> TRUE, args |-> <<>>]

\* the patterns list after the signature check
Patterns(nparams) ==
    LET patterns == << <<>>, <<USERNAME>>, <<USERNAME, PASSWORD>> >>
    IN  IF nparams = 0 /\ <<>> \notin Range(patterns)
        THEN << <<>> >> \o patterns
        ELSE patterns

\* the loop over patterns from the i-th on, then the last resort; k counts the
\* calls of ShelterClass made so far, calls[k] is what the k-th call does
RECURSIVE TryFrom(_, _, _, _)
TryFrom(calls, patterns, i, log) ==
    LET k == Len(log) + 1
    IN  IF i > Len(patterns)
        THEN \* return ShelterClass()
             [attempts |-> Append(log, <<>>),
              outcome |-> IF calls[k] = "ok" THEN Instance(<<>>) ELSE Propagated]
        ELSE IF calls[k] = "ok"
             THEN [attempts |-> Append(log, patterns[i]),
                   outcome |-> Instance(patterns[i])]
             ELSE TryFrom(calls, patterns, i + 1, Append(log, patterns[i]))

\* return None where the source makes the last, unguarded call
RECURSIVE TryFromNoLastResort(_, _, _, _)
TryFromNoLastResort(calls, patterns, i, log) ==
    LET k == Len(log) + 1
    IN  IF i > Len(patterns)
        THEN [attempts |-> log, outcome |-> Instance(<<"None">>)]
        ELSE IF calls[k] = "ok"
             THEN [attempts |-> Append(log, patterns[i]),
                   outcome |-> Instance(patterns[i])]
             ELSE TryFromNoLastResort(calls, patterns, i + 1, Append(log, patterns[i]))

try_construct_no_last_resort(calls, nparams) ==
    TryFromNoLastResort(calls, Patterns(nparams), 1, <<>>)

try_construct(calls, nparams) == TryFrom(calls, Patterns(nparams), 1, <<>>)

-----------------------------------------------------------------------------
\* Read-method discovery

CANDIDATE_METHODS ==
    <<"read", "retrieve", "read_all", "readAll",
      "get", "get_all", "find", "fetch", "fetch_all",
      "read_records", "read_all_records", "get_records">>

\* what resolve_reader ends with: a reader that calls obj.<name>, or
\* obj.collection.find, or obj.database.find, passing what `passes` says, or
\* the RuntimeError
Reader(via, name, passes) ==
    [error |-> FALSE, via |-> via, name |-> name, passes |-> passes]
NoReader == [error |-> TRUE, via |-> "RuntimeError", name |-> "", passes |-> ""]

\* hasattr(o, name) and callable(getattr(o, name))
HasAttr(o, name) == o.attrs[name] # "absent"
Callable(o, name) == o.attrs[name] = "callable"

\* the loop over CANDIDATE_METHODS from the i-th name on.  The try block only
\* builds and returns a lambda, which cannot raise, so its except branch with
\* the no-argument lambda is never taken.
RECURSIVE ScanFrom(_, _)
ScanFrom(o, i) ==
    IF i > Len(CANDIDATE_METHODS) THEN NoReader
    ELSE IF HasAttr(o, CANDIDATE_METHODS[i]) /\ Callable(o, CANDIDATE_METHODS[i])
         THEN Reader("method", CANDIDATE_METHODS[i], "q")
         ELSE ScanFrom(o, i + 1)

\* the first present attribute is taken, callable or not
RECURSIVE ScanFromAnyAttr(_, _)
ScanFromAnyAttr(o, i) ==
    IF i > Len(CANDIDATE_METHODS) THEN NoReader
    ELSE IF HasAttr(o, CANDIDATE_METHODS[i])
         THEN Reader("method", CANDIDATE_METHODS[i], "q")
         ELSE ScanFromAnyAttr(o, i + 1)

resolve_reader_any_attr(o) ==
    LET m == ScanFromAnyAttr(o, 1)
    IN  IF ~m.error THEN m
        ELSE IF o.collection \in {"find", "find_data"}
             THEN Reader("collection", "find", "q")
        ELSE IF o.database \in {"find", "find_data"}
             THEN Reader("database", "find", "q")
        ELSE NoReader

resolve_reader(o) ==
    LET m == ScanFrom(o, 1)
    IN  IF ~m.error THEN m
        \* hasattr(obj, "collection") and hasattr(obj.collection, "find")
        ELSE IF o.collection \in {"find", "find_data"}
             THEN Reader("collection", "find", "q")
        ELSE IF o.database \in {"find", "find_data"}
             THEN Reader("database", "find", "q")
        ELSE NoReader

\* reader(q): the call the returned lambda makes
CallOf(rd, q) ==
    [via |-> rd.via, name |-> rd.name,
     args |-> IF rd.passes = "q" THEN <<q>> ELSE <<>>]

NoCall == [via |-> "", name |-> "", args |-> <<>>]

-----------------------------------------------------------------------------
\* Bounds and the data the model draws from

MaxRows == 2          \* documents in the backing collection
MaxChartRows == 5     \* rows of a table handed to update_chart alone
MaxAttrs == 3         \* attributes of the data-access object among the candidates
MaxParams == 2        \* parameters of ShelterClass.__init__ besides self

\* documents of the backing collection: one with the usual fields, one with an
\* explicit null outcome and a field outside EXPECTED_COLS, one without _id
StoreDocs ==
    { ("_id" :> PyObjectId(<<"6", "5", "a">>)) @@ ("animal_type" :> PyStr(Dog))
         @@ ("breed" :> PyStr(Shepherd)) @@ ("outcome_type" :> PyStr(Adoption))
         @@ ("sex_upon_outcome" :> PyStr(Male)),
      ("_id" :> PyObjectId(<<"6", "5", "b">>)) @@ ("animal_type" :> PyStr(Cat))
         @@ ("breed" :> PyStr(Lab)) @@ ("outcome_type" :> PyNone)
         @@ ("rec_num" :> PyStr(<<"7">>)),
      ("animal_type" :> PyStr(Dog)) @@ ("breed" :> PyStr(shepherd))
         @@ ("location_lat" :> PyStr(<<"3", "0">>)) }

\* the sequences over S of length at most n
SeqsUpTo(S, n) == UNION {[1..k -> S] : k \in 0..n}

\* the lists a multi-select dropdown delivers once an option is selected:
\* distinct options, in click order
Selections(options) ==
    {l \in SeqsUpTo(options, Cardinality(options)) :
        l # <<>> /\ \A i, j \in DOMAIN l : i # j => l[i] # l[j]}

\* text typed into f-breed (None before anything is typed)
TypedBreeds == {PyNone, PyStr(shepherd)}

QueryIdle ==
    /\ q_phase = "idle"
    /\ animal_in = PyNone /\ outcome_in = PyNone
    /\ breed_in = PyNone /\ sex_in = PyNone
    /\ q_out = EmptyDict

DashIdle ==
    /\ phase = "idle"
    /\ store = <<>>
    /\ animal_types = {} /\ outcome_types = {} /\ sex_options = {}
    /\ last_query = EmptyDict
    /\ last_result = Returned("none", <<>>)
    /\ reader_calls = 0
    /\ fetch_logged = FALSE /\ escaped = FALSE
    /\ df_columns = {}
    /\ tbl_data = <<>>
    /\ chart_stale = FALSE
    /\ chart = NoFigure

ResolveIdle ==
    /\ r_phase = "idle"
    /\ obj = [attrs |-> [n \in Range(CANDIDATE_METHODS) |-> "absent"],
              collection |-> "absent", database |-> "absent"]
    /\ resolved = NoReader
    /\ invoked = NoCall

ConstructIdle ==
    /\ c_phase = "idle"
    /\ ctor = <<>>
    /\ n_params = 0
    /\ attempts = <<>>
    /\ constructed = Propagated

-----------------------------------------------------------------------------
\* The dashboard: startup, then the callbacks

DashInit ==
    /\ phase = "startup"
    /\ store \in SeqsUpTo(StoreDocs, MaxRows)
    /\ animal_types = {} /\ outcome_types = {} /\ sex_options = {}
    /\ last_query = EmptyDict
    /\ last_result = Returned("none", <<>>)
    /\ reader_calls = 0
    /\ fetch_logged = FALSE /\ escaped = FALSE
    /\ df_columns = {}
    /\ tbl_data = <<>>
    /\ chart_stale = FALSE
    /\ chart = NoFigure

\* the layout's initial control values
ControlsInit ==
    /\ q_phase = "idle"
    /\ animal_in = PyStr(All) /\ outcome_in = PyStr(All)
    /\ breed_in = PyNone /\ sex_in = PyNone
    /\ q_out = EmptyDict

Init == DashInit /\ ControlsInit /\ ResolveIdle /\ ConstructIdle

\* the module body from the initial fetch to the layout
InitialFetch ==
    /\ phase = "startup"
    /\ \E fault \in Faults :
         \E out \in {initial_fetch(store, fault)} :
             /\ last_query' = out.query
             /\ last_result' = out.result
             /\ reader_calls' = out.calls
             /\ fetch_logged' = out.logged
             /\ escaped' = out.escaped
             /\ df_columns' = out.columns
             /\ tbl_data' = out.data
             /\ animal_types' = out.animal_types
             /\ outcome_types' = out.outcome_types
             /\ sex_options' = out.sex_options
    /\ phase' = "serving"
    /\ UNCHANGED <<store, chart_stale, chart, q_vars, r_vars, c_vars>>

\* a change of a filter control: the callback update_table runs; when an
\* exception leaves it the table keeps its data and no chart update follows
UpdateTable ==
    /\ phase = "serving"
    /\ \E animal \in animal_types, outcome \in outcome_types,
          breed \in TypedBreeds,
          sex \in {PyNone} \cup {PyList(l) : l \in Selections(sex_options)},
          fault \in Faults :
         \E out \in {update_table(animal, outcome, breed, sex, store, fault)} :
             /\ animal_in' = animal /\ outcome_in' = outcome
             /\ breed_in' = breed /\ sex_in' = sex
             /\ last_query' = out.query
             /\ last_result' = out.result
             /\ reader_calls' = out.calls
             /\ fetch_logged' = out.logged
             /\ escaped' = out.escaped
             /\ IF out.escaped
                THEN UNCHANGED <<df_columns, tbl_data, chart_stale>>
                ELSE /\ df_columns' = out.columns
                     /\ tbl_data' = out.data
                     /\ chart_stale' = TRUE
    /\ UNCHANGED <<phase, store, animal_types, outcome_types, sex_options,
                   chart, q_phase, q_out, r_vars, c_vars>>

\* the callback update_chart runs on the table's new data
UpdateChart ==
    /\ phase \in {"serving", "chart"}
    /\ chart_stale
    /\ chart' = update_chart(tbl_data)
    /\ chart_stale' = FALSE
    /\ UNCHANGED <<phase, store, animal_types, outcome_types, sex_options,
                   last_query, last_result, reader_calls, fetch_logged, escaped,
                   df_columns, tbl_data, q_vars, r_vars, c_vars>>

Next == InitialFetch \/ UpdateTable \/ UpdateChart

Spec == Init /\ [][Next]_vars

\* the fields the records of a reader result carry
Supplied(result) ==
    IF result.exc \/ result.kind # "records" THEN {}
    ELSE UNION {DOMAIN result.recs[i] : i \in DOMAIN result.recs}

\* the last fetch failed: reader raised, or normalising its result did
FetchFailed == last_result.exc \/ last_result.kind = "scalar"

\* C1: when the reader, or the normalisation of its result, raises on the
\* query of the initial fetch or of a filter change, the table is the empty
\* table with exactly the expected columns, an error line was printed and no
\* exception left the handler.
C1_FailedFetchGivesEmptyTable ==
    (phase = "serving" /\ FetchFailed)
    => /\ tbl_data = <<>>
       /\ df_columns = Range(EXPECTED_COLS)
       /\ fetch_logged
       /\ ~escaped

C1_Witness ==
    /\ phase = "serving"
    /\ last_result.exc
    /\ last_query # EmptyDict
    /\ store # <<>>
    /\ tbl_data = <<>> /\ df_columns = Range(EXPECTED_COLS) /\ ~escaped

\* C2 as stated: in every state the column set of the Dataset is exactly the
\* expected field list, in the frame and in every row.
C2_Original ==
    (phase = "serving")
    => /\ df_columns = Range(EXPECTED_COLS)
       /\ \A i \in DOMAIN tbl_data : DOMAIN tbl_data[i] = Range(EXPECTED_COLS)

\* C2 amended: in every state the column set of the Dataset is the expected
\* field list together with the other fields the returned records carry:
\* every expected field is in every row, None when no returned record
\* supplied it and null (or, for _id, the text of NaN) when only this record
\* did not, and the fields outside the expected list are kept.
C2_ExpectedColumnsAndExtras ==
    (phase = "serving")
    => /\ df_columns = Range(EXPECTED_COLS) \cup Supplied(last_result)
       /\ \A i \in DOMAIN tbl_data :
            /\ DOMAIN tbl_data[i] = df_columns
            /\ \A c \in Range(EXPECTED_COLS) \ Supplied(last_result) :
                  tbl_data[i][c] = PyNone
            /\ \A c \in Supplied(last_result) \ DOMAIN last_result.recs[i] :
                  IF c = "_id" THEN tbl_data[i][c] = PyStr(<<"n", "a", "n">>)
                  ELSE IsNull(tbl_data[i][c])

C2_Witness ==
    /\ phase = "serving"
    /\ last_query # EmptyDict
    /\ tbl_data # <<>>
    /\ "rec_num" \in df_columns
    /\ "name" \notin Supplied(last_result)
    /\ tbl_data[1]["name"] = PyNone

\* C10: the table is determined by the current control values and by what the
\* reader did on the query built from them: the query is build_query of the
\* control values, the fetch made one reader call, a failed fetch leaves zero
\* rows whatever the table held before, and otherwise the rows are the
\* returned records, one row per record with the record's values.
C10_TableFromLatestQueryOnly ==
    (phase = "serving")
    => /\ last_query = build_query(animal_in, outcome_in, breed_in,
                                   IF Truthy(sex_in) THEN sex_in ELSE PyList(<<>>))
       /\ reader_calls = 1
       /\ FetchFailed => tbl_data = <<>>
       /\ (~last_result.exc /\ last_result.kind = "none") => tbl_data = <<>>
       /\ (~last_result.exc /\ last_result.kind = "records")
            => /\ Len(tbl_data) = Len(last_result.recs)
               /\ \A i \in DOMAIN tbl_data :
                    \A c \in DOMAIN last_result.recs[i] \ {"_id"} :
                       tbl_data[i][c] = last_result.recs[i][c]

\* the initial fetch returned rows (the dropdown has their species), the
\* latest filter change failed, and the table holds no row
C10_Witness ==
    /\ phase = "serving"
    /\ animal_types # {PyStr(All)}
    /\ animal_in # PyStr(All)
    /\ last_result.exc
    /\ reader_calls = 1
    /\ tbl_data = <<>>

-----------------------------------------------------------------------------
\* build_query applied to every combination of control values

SpeciesValues == {PyNone, PyStr(<<>>), PyStr(All), PyStr(Dog), PyStr(Cat)}
OutcomeValues == {PyNone, PyStr(<<>>), PyStr(All), PyStr(Adoption), PyStr(Transfer)}
BreedTexts == {PyNone, PyStr(<<>>), PyStr(shepherd), PyStr(SHEP), PyStr(Lab)}
SexValues == {PyNone, PyList(<<>>), PyList(<<PyStr(Male)>>),
              PyList(<<PyStr(Male), PyStr(Female)>>)}

\* documents the breed constraint is tried on
BreedProbes == { ("breed" :> PyStr(b)) : b \in {Shepherd, shepherd, Lab, Dog} }

QueryInit ==
    /\ q_phase = "input"
    /\ animal_in \in SpeciesValues
    /\ outcome_in \in OutcomeValues
    /\ breed_in \in BreedTexts
    /\ sex_in \in SexValues
    /\ q_out = EmptyDict
    /\ DashIdle /\ ResolveIdle /\ ConstructIdle

BuildQuery ==
    /\ q_phase = "input"
    /\ q_out' = build_query(animal_in, outcome_in, breed_in, sex_in)
    /\ q_phase' = "built"
    /\ UNCHANGED <<animal_in, outcome_in, breed_in, sex_in, dash_vars,
                   r_vars, c_vars>>

QueryNext == BuildQuery

SpecQuery == QueryInit /\ [][QueryNext]_vars

\* a category control that constrains nothing: None, "" or the sentinel "All"
Unset(v) == ~Truthy(v) \/ v = PyStr(All)

\* C3: when species and outcome are "All", empty or None and breed and sex are
\* empty or None, build_query returns the empty filter {}, the filter of the
\* initial fetch.
C3_AllUnsetGivesEmptyFilter ==
    (q_phase = "built" /\ Unset(animal_in) /\ Unset(outcome_in)
        /\ ~Truthy(breed_in) /\ ~Truthy(sex_in))
    => (q_out = EmptyDict /\ q_out = InitialFetchQuery /\ DOMAIN q_out = {})

C3_Witness ==
    /\ q_phase = "built"
    /\ animal_in = PyStr(All) /\ outcome_in = PyStr(All)
    /\ breed_in = PyStr(<<>>) /\ sex_in = PyNone
    /\ q_out = InitialFetchQuery

\* what C4 says of the filter once a species is given
SpeciesConstraintOnly ==
    /\ "animal_type" \in DOMAIN q_out
    /\ q_out["animal_type"] = animal_in
    /\ ("outcome_type" \in DOMAIN q_out)
          <=> (Truthy(outcome_in) /\ outcome_in # PyStr(All))
    /\ ("outcome_type" \in DOMAIN q_out) => q_out["outcome_type"] = outcome_in
    /\ DOMAIN q_out \subseteq
          {"animal_type", "outcome_type", "breed", "sex_upon_outcome"}

\* C4 as stated: for every species value other than "All" the filter holds that
\* species as the animal_type constraint, and an outcome_type constraint only
\* for a set outcome.
C4_Original ==
    (q_phase = "built" /\ animal_in # PyStr(All)) => SpeciesConstraintOnly

\* C4 amended: for every species value that is neither "All" nor empty nor
\* None, the filter holds exactly that species as the animal_type constraint,
\* and an outcome_type constraint (equal to the outcome value) exactly when the
\* outcome is set to a non-"All", non-empty value.
C4_SetSpeciesConstraint ==
    (q_phase = "built" /\ Truthy(animal_in) /\ animal_in # PyStr(All))
    => SpeciesConstraintOnly

C4_Witness ==
    /\ q_phase = "built"
    /\ animal_in = PyStr(Dog) /\ outcome_in = PyStr(All)
    /\ DOMAIN q_out = {"animal_type"}
    /\ q_out["animal_type"] = PyStr(Dog)

\* C5: a non-empty breed text becomes the constraint {"$regex": text,
\* "$options": "i"} with the text unchanged, which every document whose breed
\* contains the text in any letter case satisfies; an empty or None breed text
\* adds no breed constraint.
C5_BreedCaseInsensitive ==
    (q_phase = "built") =>
      /\ Truthy(breed_in) =>
           /\ "breed" \in DOMAIN q_out
           /\ q_out["breed"] = PyDict(("$regex" :> breed_in)
                                      @@ ("$options" :> PyStr(<<"i">>)))
           /\ \A doc \in BreedProbes :
                 Contains(Lower(doc["breed"].val), Lower(breed_in.val))
                    <=> FieldMatches(doc, "breed", q_out["breed"])
      /\ ~Truthy(breed_in) => "breed" \notin DOMAIN q_out

C5_Witness ==
    /\ q_phase = "built"
    /\ breed_in = PyStr(shepherd)
    /\ FieldMatches(("breed" :> PyStr(Shepherd)), "breed", q_out["breed"])
    /\ ~Contains(Shepherd, shepherd)

-----------------------------------------------------------------------------
\* update_chart applied to every table of at most MaxChartRows rows

\* rows as update_table delivers them for one document each (outcome
\* "Adoption", "Transfer" and an explicit null), and a row without the
\* outcome_type key
ChartRows ==
    { update_table(PyStr(All), PyStr(All), PyNone, PyNone,
                   <<("animal_type" :> PyStr(Dog)) @@ ("outcome_type" :> o)>>,
                   "ok").data[1] : o \in {PyStr(Adoption), PyStr(Transfer), PyNone} }
    \cup { ("breed" :> PyStr(Lab)) }

ChartInit ==
    /\ phase = "chart"
    /\ tbl_data \in SeqsUpTo(ChartRows, MaxChartRows)
    /\ chart_stale = TRUE
    /\ chart = NoFigure
    /\ store = <<>>
    /\ animal_types = {} /\ outcome_types = {} /\ sex_options = {}
    /\ last_query = EmptyDict
    /\ last_result = Returned("none", <<>>)
    /\ reader_calls = 0
    /\ fetch_logged = FALSE /\ escaped = FALSE
    /\ df_columns = {}
    /\ QueryIdle /\ ResolveIdle /\ ConstructIdle

ChartNext == UpdateChart

SpecChart == ChartInit /\ [][ChartNext]_vars

\* the rows of the table that carry the key outcome_type
WithOutcome == {i \in DOMAIN tbl_data : "outcome_type" \in DOMAIN tbl_data[i]}

\* the bucket a row is counted under
BucketOf(i) ==
    IF i \in WithOutcome /\ tbl_data[i]["outcome_type"] # PyNone
    THEN tbl_data[i]["outcome_type"] ELSE PyStr(Unknown)

RECURSIVE SumOf(_, _)
SumOf(f, S) ==
    IF S = {} THEN 0
    ELSE LET x == CHOOSE x \in S : TRUE IN f[x] + SumOf(f, S \ {x})

\* C6: for a table with rows (and the outcome_type column) the chart has one
\* bucket per distinct outcome type of the rows, null counted as "Unknown";
\* each bucket counts the rows of its outcome type and the counts sum to the
\* number of rows.
C6_BucketsCountRows ==
    (phase = "chart" /\ ~chart_stale /\ WithOutcome # {})
    => /\ ~chart.raised
       /\ chart.title = ChartTitle
       /\ DOMAIN chart.buckets = {BucketOf(i) : i \in DOMAIN tbl_data}
       /\ \A b \in DOMAIN chart.buckets :
             chart.buckets[b] = Cardinality({i \in DOMAIN tbl_data : BucketOf(i) = b})
       /\ SumOf(chart.buckets, DOMAIN chart.buckets) = Len(tbl_data)

\* the table of the example: three "Adoption" rows and two null rows
C6_Witness ==
    /\ phase = "chart" /\ ~chart_stale
    /\ Len(tbl_data) = 5
    /\ WithOutcome = DOMAIN tbl_data
    /\ Cardinality({i \in WithOutcome :
                      tbl_data[i]["outcome_type"] = PyStr(Adoption)}) = 3
    /\ Cardinality({i \in WithOutcome :
                      tbl_data[i]["outcome_type"] = PyNone}) = 2
    /\ chart.buckets = (PyStr(Adoption) :> 3) @@ (PyStr(Unknown) :> 2)

\* C7: update_chart on a table without rows (such as the empty table of a
\* failed fetch), or whose rows have no outcome_type column, gives the figure
\* with the "no data" title and no buckets, and raises nothing.
C7_EmptyTableNoDataChart ==
    (phase = "chart" /\ ~chart_stale /\ WithOutcome = {})
    => /\ ~chart.raised
       /\ chart.title = NoDataTitle
       /\ DOMAIN chart.buckets = {}

C7_Witness ==
    /\ phase = "chart" /\ ~chart_stale
    /\ tbl_data = update_table(PyStr(All), PyStr(All), PyNone, PyNone,
                               <<>>, "raise").data
    /\ tbl_data = <<>>
    /\ chart.title = NoDataTitle

-----------------------------------------------------------------------------
\* resolve_reader applied to every object with at most MaxAttrs attributes
\* among the candidate names

AttrShapes ==
    {a \in [Range(CANDIDATE_METHODS) -> {"absent", "data", "callable"}] :
        Cardinality({n \in Range(CANDIDATE_METHODS) : a[n] # "absent"}) <= MaxAttrs}

\* filters a resolved reader is called with
ProbeQueries == {EmptyDict, build_query(PyStr(Dog), PyStr(All), PyNone, PyList(<<>>))}

ResolveInit ==
    /\ r_phase = "input"
    /\ obj \in [attrs : AttrShapes,
                collection : {"absent", "nofind", "find", "find_data"},
                database : {"absent", "nofind", "find"}]
    /\ resolved = NoReader
    /\ invoked = NoCall
    /\ QueryIdle /\ DashIdle /\ ConstructIdle

\* reader = resolve_reader(shelter)
Resolve ==
    /\ r_phase = "input"
    /\ resolved' = resolve_reader(obj)
    /\ r_phase' = "resolved"
    /\ UNCHANGED <<obj, invoked, q_vars, dash_vars, c_vars>>

\* reader(q), when resolve_reader returned a reader
CallReader ==
    /\ r_phase = "resolved"
    /\ ~resolved.error
    /\ \E q \in ProbeQueries :
         /\ invoked' = CallOf(resolved, q)
         /\ last_query' = q
    /\ r_phase' = "called"
    /\ UNCHANGED <<obj, resolved, q_vars, c_vars,
                   phase, store, animal_types, outcome_types, sex_options,
                   last_result, reader_calls, fetch_logged, escaped,
                   df_columns, tbl_data, chart_stale, chart>>

ResolveNext == Resolve \/ CallReader

SpecResolve == ResolveInit /\ [][ResolveNext]_vars

\* the positions in CANDIDATE_METHODS of the present, callable attributes
Qualifying == {i \in DOMAIN CANDIDATE_METHODS : obj.attrs[CANDIDATE_METHODS[i]] = "callable"}

HasFind(sub) == sub \in {"find", "find_data"}

-----------------------------------------------------------------------------
\* try_construct applied to every behaviour of the constructor

\* what a call of ShelterClass does: it returns, raises TypeError (the
\* arguments do not fit) or raises another Exception (no connection)
CtorOutcomes == {"ok", "TypeError", "Exception"}

\* calls try_construct can make: one per pattern and the last resort
MaxCtorCalls == Len(Patterns(1)) + 1

ConstructInit ==
    /\ c_phase = "input"
    /\ ctor \in [1..MaxCtorCalls -> CtorOutcomes]
    /\ n_params \in 0..MaxParams
    /\ attempts = <<>>
    /\ constructed = Propagated
    /\ QueryIdle /\ DashIdle /\ ResolveIdle

\* shelter = try_construct()
TryConstruct ==
    /\ c_phase = "input"
    /\ \E out \in {try_construct(ctor, n_params)} :
         /\ attempts' = out.attempts
         /\ constructed' = out.outcome
    /\ c_phase' = "done"
    /\ UNCHANGED <<ctor, n_params, q_vars, dash_vars, r_vars>>

ConstructNext == TryConstruct

SpecConstruct == ConstructInit /\ [][ConstructNext]_vars

\* the argument shapes in the order the claim gives them
Shapes == << <<>>, <<USERNAME>>, <<USERNAME, PASSWORD>> >>

\* the guarded attempts that return
Succeeding == {i \in 1..3 : ctor[i] = "ok"}

\* C9: try_construct calls the constructor with no argument, one credential,
\* two credentials, in that order; the first call that does not raise gives
\* the instance and no later shape is tried; a call that raises is skipped;
\* when all three raise, one more no-argument call is made, whose instance is
\* returned or whose exception propagates.
C9_ConstructOrder ==
    (c_phase = "done")
    => /\ (Succeeding # {}) =>
             \E i \in Succeeding :
                /\ \A j \in Succeeding : i <= j
                /\ attempts = SubSeq(Shapes, 1, i)
                /\ constructed = Instance(Shapes[i])
       /\ (Succeeding = {}) =>
             /\ attempts = Shapes \o << <<>> >>
             /\ (ctor[4] = "ok") => constructed = Instance(<<>>)
             /\ (ctor[4] # "ok") => constructed = Propagated

\* the three shapes raised and so did the last resort: the exception propagates
C9_Witness ==
    /\ c_phase = "done"
    /\ ctor[1] = "TypeError" /\ ctor[2] = "Exception" /\ ctor[3] = "TypeError"
    /\ ctor[4] = "Exception"
    /\ Len(attempts) = 4
    /\ constructed.raised

=============================================================================
